---- MODULE Spec2Model ----
(***************************************************************************)
(* Model of map_instructor_affiliations.py: the aggregation of a roster of *)
(* instructors per affiliation, the lookup of each affiliation in the      *)
(* table of institution coordinates, the two renderings (marker map and    *)
(* heat map) and the control flow of main() around them.                   *)
(*                                                                         *)
(* Coordinates are decimal degrees times ten, kept as integers.            *)
(* A step of main() that calls into a library may raise; every such step   *)
(* draws "raised" from BOOLEAN.                                            *)
(***************************************************************************)
EXTENDS Integers, Sequences, FiniteSets, TLC

\* ------------------------------------------------------------------ bounds
MaxRows == 3          \* longest roster read from the CSV file
MaxFiles == 2         \* most files the discovery pattern can match

\* ------------------------------------------------------------ data domain
\* pandas' missing value
NaN == "NaN"

\* The affiliation strings of the model, in lexicographic order
\* (the order groupby() sorts its keys in).
Affiliations == <<"Kings College", "Univ. of X", "University of X", "Unknown Place">>

AffiliationSet == {Affiliations[i] : i \in DOMAIN Affiliations}

Rank(a) == CHOOSE i \in DOMAIN Affiliations : Affiliations[i] = a

\* zoom_start of folium.Map
ZoomStart == 6
\* radius of folium.CircleMarker
MarkerRadius == 5

Coord(name, long, lat) == [VIEW_NAME |-> name, LONGITUDE |-> long, LATITUDE |-> lat]

\* Contents the sheet 'UK-academic-institutions' may have.  The third has a
\* repeated VIEW_NAME; the fourth knows none of the roster's affiliations.
GeodataSheets ==
    { << Coord("University of X", -1, 515) >>,
      << Coord("University of X", -1, 515), Coord("Unknown Place", -30, 540) >>,
      << Coord("University of X", -1, 515), Coord("University of X", -20, 530) >>,
      << Coord("University of Y", -42, 559) >> }

\* Sequences over S of length at most n
RECURSIVE SeqUpTo(_, _)
SeqUpTo(S, n) ==
    IF n = 0 THEN { << >> }
    ELSE LET shorter == SeqUpTo(S, n - 1)
         IN  shorter \cup { Append(s, x) : s \in { t \in shorter : Len(t) = n - 1 }, x \in S }

\* The CSV files main() may be given: with or without the required column,
\* every row an affiliation or a missing value.
CsvFiles ==
    { [columns |-> {"affiliation"}, rows |-> r] : r \in SeqUpTo(AffiliationSet \cup {NaN}, MaxRows) }
    \cup { [columns |-> {"name"}, rows |-> << >>] }

\* What the instructors data directory may hold: files named by the pattern
\* carpentry-instructors_GB_*.csv, told apart by their creation time.
DirFile(t) == [name |-> "carpentry-instructors_GB_" \o ToString(t) \o ".csv", ctime |-> t]
DirListings == SUBSET { DirFile(t) : t \in 1..MaxFiles }

\* ------------------------------------------------------------- lib.helper
\* Name Normalizer: known aliases are mapped onto the canonical name, every
\* other string is returned unchanged.
FixName(a) == IF a = "Univ. of X" THEN "University of X" ELSE a

fix_UK_academic_institutions_names(d) == [i \in DOMAIN d |-> FixName(d[i])]

\* Rows whose affiliation is missing are removed, the others keep their order.
drop_null_values_from_columns(d) == SelectSeq(d, LAMBDA a : a # NaN)

\* The supplemental, fixed set of non academic locations.
get_UK_non_academic_institutions_coords == << Coord("Conference Venue", -15, 520) >>

RECURSIVE SumColumn(_, _)
SumColumn(coords, column) ==
    IF coords = << >> THEN 0 ELSE Head(coords)[column] + SumColumn(Tail(coords), column)

\* Arithmetic mean of the latitudes and of the longitudes of the whole table.
get_center(coords) ==
    << SumColumn(coords, "LATITUDE") \div Len(coords),
       SumColumn(coords, "LONGITUDE") \div Len(coords) >>

\* ------------------------------------------------ instructors_per_affiliation
\* The keys groupby(['affiliation']) forms: the distinct values, missing
\* values left out.
GroupKeys(d) == { d[i] : i \in DOMAIN d } \ {NaN}

RECURSIVE SortedKeys(_)
SortedKeys(K) ==
    IF K = {} THEN << >>
    ELSE LET first == CHOOSE a \in K : \A b \in K : Rank(a) <= Rank(b)
         IN  << first >> \o SortedKeys(K \ {first})

GroupSize(d, a) == Cardinality({ i \in DOMAIN d : d[i] = a })

\* As instructors_per_affiliation, the number of distinct values of a group
\* (nunique) taken for its size.
instructors_per_affiliation_nunique(d) ==
    LET keys == SortedKeys(GroupKeys(d))
    IN  [i \in DOMAIN keys |-> [affiliation |-> keys[i], count |-> 1]]

instructors_per_affiliation(d) ==
    LET keys == SortedKeys(GroupKeys(d))
    IN  [i \in DOMAIN keys |-> [affiliation |-> keys[i], count |-> GroupSize(d, keys[i])]]

\* ------------------------------------------------------------ generate_map
\* institutions_coords_df[institutions_coords_df['VIEW_NAME'] == a][column]
RECURSIVE CoordsOf(_, _, _)
CoordsOf(coords, a, column) ==
    IF coords = << >> THEN << >>
    ELSE (IF Head(coords).VIEW_NAME = a THEN << Head(coords)[column] >> ELSE << >>)
         \o CoordsOf(Tail(coords), a, column)

Popup(row) == row.affiliation \o ": " \o ToString(row.count)

\* As CircleMarker, longitude and latitude in the wrong order.
CircleMarker_long_lat(lat, long, label) ==
    [radius |-> MarkerRadius, location |-> << long, lat >>, popup |-> label]

CircleMarker(lat, long, label) ==
    [radius |-> MarkerRadius, location |-> << lat, long >>, popup |-> label]

Skipping(a) == [msg |-> "Skipping it", affiliation |-> a]

\* The loop of generate_map over the rows from index i on: the markers added
\* to the map and the lines printed.
RECURSIVE MapRows(_, _, _)
MapRows(instr_affs, coords, i) ==
    IF i > Len(instr_affs) THEN [children |-> << >>, printed |-> << >>]
    ELSE LET row == instr_affs[i]
             long_coords == CoordsOf(coords, row.affiliation, "LONGITUDE")
             lat_coords == CoordsOf(coords, row.affiliation, "LATITUDE")
             label == Popup(row)
             rest == MapRows(instr_affs, coords, i + 1)
         IN  IF long_coords # << >> /\ lat_coords # << >>
             THEN [children |-> << CircleMarker(lat_coords[1], long_coords[1], label) >> \o rest.children,
                   printed |-> rest.printed]
             ELSE [children |-> rest.children,
                   printed |-> << Skipping(row.affiliation) >> \o rest.printed]

generate_map(instr_affs, coords, c) ==
    LET loop == MapRows(instr_affs, coords, 1)
    IN  [maps |-> [location |-> << c[1], c[2] >>, zoom_start |-> ZoomStart, children |-> loop.children],
         printed |-> loop.printed]

\* ------------------------------------------------------- generate_heat_map
\* The loop of generate_heat_map over the rows from index i on: lat_list and
\* long_list.
RECURSIVE HeatRows(_, _, _)
HeatRows(instr_affs, coords, i) ==
    IF i > Len(instr_affs) THEN [lat_list |-> << >>, long_list |-> << >>]
    ELSE LET row == instr_affs[i]
             long_coords == CoordsOf(coords, row.affiliation, "LONGITUDE")
             lat_coords == CoordsOf(coords, row.affiliation, "LATITUDE")
             rest == HeatRows(instr_affs, coords, i + 1)
         IN  IF long_coords # << >> /\ lat_coords # << >>
             THEN [lat_list |-> << lat_coords[1] >> \o rest.lat_list,
                   long_list |-> << long_coords[1] >> \o rest.long_list]
             ELSE rest

\* As HeatRows, a matched row giving as many points as its count.
RECURSIVE HeatRowsWeighted(_, _, _, _)
HeatRowsWeighted(instr_affs, coords, i, n) ==
    IF i > Len(instr_affs) THEN [lat_list |-> << >>, long_list |-> << >>]
    ELSE LET row == instr_affs[i]
             long_coords == CoordsOf(coords, row.affiliation, "LONGITUDE")
             lat_coords == CoordsOf(coords, row.affiliation, "LATITUDE")
         IN  IF long_coords # << >> /\ lat_coords # << >> /\ n < row.count
             THEN LET rest == HeatRowsWeighted(instr_affs, coords, i, n + 1)
                  IN  [lat_list |-> << lat_coords[1] >> \o rest.lat_list,
                       long_list |-> << long_coords[1] >> \o rest.long_list]
             ELSE HeatRowsWeighted(instr_affs, coords, i + 1, 0)

Min(a, b) == IF a < b THEN a ELSE b

zip(xs, ys) == [i \in 1..Min(Len(xs), Len(ys)) |-> << xs[i], ys[i] >>]

\* As generate_heat_map, the points weighted by the count of their row.
generate_heat_map_weighted(instr_affs, coords) ==
    LET loop == HeatRowsWeighted(instr_affs, coords, 1, 0)
        locations == zip(loop.lat_list, loop.long_list)
    IN  [fig |-> [layers |-> << [locations |-> locations] >>], printed |-> << >>]

\* As generate_heat_map, with the else branch of generate_map's loop: the
\* unmatched rows are reported a second time.
generate_heat_map_reporting(instr_affs, coords) ==
    LET loop == HeatRows(instr_affs, coords, 1)
        locations == zip(loop.lat_list, loop.long_list)
    IN  [fig |-> [layers |-> << [locations |-> locations] >>],
         printed |-> MapRows(instr_affs, coords, 1).printed]

generate_heat_map(instr_affs, coords) ==
    LET loop == HeatRows(instr_affs, coords, 1)
        locations == zip(loop.lat_list, loop.long_list)
    IN  [fig |-> [layers |-> << [locations |-> locations] >>], printed |-> << >>]

\* -------------------------------------------------------------------- main
INSTRUCTORS_DATA_DIR == "data/instructors/"

\* What the operator may pass: --instructors_file and --google_drive_dir_id,
\* the empty string standing for an option left out.
InstructorsFileArgs == { "", "in/roster.csv", "roster_2018.txt" }
GoogleDriveDirIds == { "", "folder-id" }

\* os.path.basename of the paths of the model
basename(path) ==
    IF Len(path) >= 3 /\ SubSeq(path, 1, 3) = "in/" THEN SubSeq(path, 4, Len(path))
    ELSE IF Len(path) >= Len(INSTRUCTORS_DATA_DIR)
            /\ SubSeq(path, 1, Len(INSTRUCTORS_DATA_DIR)) = INSTRUCTORS_DATA_DIR
         THEN SubSeq(path, Len(INSTRUCTORS_DATA_DIR) + 1, Len(path))
         ELSE path

\* re.sub('\.csv$', '', name)
without_extension(name) ==
    IF Len(name) >= 4 /\ SubSeq(name, Len(name) - 3, Len(name)) = ".csv"
    THEN SubSeq(name, 1, Len(name) - 4)
    ELSE name

html_map_file(file) ==
    INSTRUCTORS_DATA_DIR \o "map_instructors_per_affiliation_" \o without_extension(basename(file)) \o ".html"

html_heatmap_file(file) ==
    INSTRUCTORS_DATA_DIR \o "heatmap_instructors_per_affiliation_" \o without_extension(basename(file)) \o ".html"

\* glob.glob(...) followed by sort(key=os.path.getctime)
RECURSIVE SortByCtime(_)
SortByCtime(F) ==
    IF F = {} THEN << >>
    ELSE LET oldest == CHOOSE f \in F : \A g \in F : f.ctime <= g.ctime
         IN  << oldest >> \o SortByCtime(F \ {oldest})

VARIABLES
    pc,                              \* the statement of main() to run next
    args,                            \* the parsed command line
    instructors_files,               \* the files found in the data directory
    instructors_file,                \* path of the roster to analyse
    files_read,                      \* the files opened for reading so far
    uk_academic_institutions_df,     \* the sheet of the geodata file
    df,                              \* the roster: its affiliation column
    all_uk_institutions_coords_df,   \* academic and non academic coordinates
    center,                          \* where the marker map is centred
    instructors_affiliations,        \* the aggregated table
    maps,                            \* the marker map
    heat_map,                        \* the heat map figure
    html_files,                      \* the HTML files on disk
    drive_calls,                     \* the calls made to Google Drive
    stdout,                          \* the lines printed
    stderr,                          \* the traceback of an uncaught exception
    exit_status,                     \* the status of the process once pc = "done"
    raised_at                        \* the statement that raised, "" if none did

vars == << pc, args, instructors_files, instructors_file, files_read, uk_academic_institutions_df, df,
           all_uk_institutions_coords_df, center, instructors_affiliations, maps,
           heat_map, html_files, drive_calls, stdout, stderr, exit_status, raised_at >>

tables == << uk_academic_institutions_df, df, all_uk_institutions_coords_df, center,
             instructors_affiliations, maps, heat_map >>

\* The statements of main() in the order they run.
Statements == << "parse_args", "locate", "read_geodata", "load_data", "drop_null", "fix_names",
                 "coords", "aggregate", "generate_map", "generate_heat_map", "save_map",
                 "save_heatmap", "upload", "done" >>

Index(st) == CHOOSE i \in DOMAIN Statements : Statements[i] = st

Line(m) == [msg |-> m]

Init ==
    /\ pc = "parse_args"
    /\ args = [instructors_file |-> "", google_drive_dir_id |-> ""]
    /\ instructors_files = << >>
    /\ instructors_file = ""
    /\ files_read = {}
    /\ uk_academic_institutions_df = << >>
    /\ df = << >>
    /\ all_uk_institutions_coords_df = << >>
    /\ center = << 0, 0 >>
    /\ instructors_affiliations = << >>
    /\ maps = [location |-> << 0, 0 >>, zoom_start |-> ZoomStart, children |-> << >>]
    /\ heat_map = [layers |-> << >>]
    /\ html_files = {}
    /\ drive_calls = << >>
    /\ stdout = << >>
    /\ stderr = << >>
    /\ exit_status = 0
    /\ raised_at = ""

\* lines 81-82
ParseArgs ==
    /\ pc = "parse_args"
    /\ \E f \in InstructorsFileArgs, d \in GoogleDriveDirIds :
          args' = [instructors_file |-> f, google_drive_dir_id |-> d]
    /\ stdout' = Append(stdout, Line("Mapping instructors affiliation"))
    /\ pc' = "locate"
    /\ UNCHANGED << instructors_files, instructors_file, files_read, tables, html_files, drive_calls, stderr,
                    exit_status, raised_at >>

\* lines 84-86 and 98-100
UseGivenFile ==
    /\ pc = "locate"
    /\ args.instructors_file # ""
    /\ instructors_file' = args.instructors_file
    /\ stdout' = stdout \o << Line("The CSV spreadsheet to be mapped"), Line("CSV file to analyse") >>
    /\ pc' = "read_geodata"
    /\ UNCHANGED << args, instructors_files, files_read, tables, html_files, drive_calls,
                    stderr, exit_status, raised_at >>

\* lines 87-96 and 98-100: instructors_files[-1] raises IndexError on an empty
\* list, and nothing in main() catches it there.
LocateLatestFile ==
    /\ pc = "locate"
    /\ args.instructors_file = ""
    /\ \E listing \in DirListings :
          LET found == SortByCtime(listing)
              located == Append(stdout, Line("Trying to locate the latest CSV spreadsheet"))
          IN  /\ instructors_files' = found
              /\ IF found = << >>
                 THEN /\ stderr' = << "IndexError" >>
                      /\ stdout' = located
                      /\ exit_status' = 1
                      /\ raised_at' = "locate"
                      /\ pc' = "done"
                      /\ UNCHANGED instructors_file
                 ELSE IF found[Len(found)].name = ""
                 THEN /\ stdout' = Append(located, Line("No CSV file with Carpentry instructors found"))
                      /\ exit_status' = 1
                      /\ pc' = "done"
                      /\ UNCHANGED << instructors_file, stderr, raised_at >>
                 ELSE /\ instructors_file' = INSTRUCTORS_DATA_DIR \o found[Len(found)].name
                      /\ stdout' = Append(located, Line("CSV file to analyse"))
                      /\ pc' = "read_geodata"
                      /\ UNCHANGED << stderr, exit_status, raised_at >>
    /\ UNCHANGED << args, files_read, tables, html_files, drive_calls >>

\* As ReadGeodata, the statements of the else clause run after the except
\* clause too.
ReadGeodata_no_else ==
    /\ pc = "read_geodata"
    /\ files_read' = files_read \cup {"geodata"}
    /\ \E raised \in BOOLEAN, sheet \in GeodataSheets :
          IF raised
          THEN /\ stdout' = Append(stdout, Line("An error occurred while reading the geodata file"))
               /\ raised_at' = "read_geodata"
               /\ pc' = "load_data"
               /\ UNCHANGED uk_academic_institutions_df
          ELSE /\ uk_academic_institutions_df' = sheet
               /\ pc' = "load_data"
               /\ UNCHANGED << stdout, raised_at >>
    /\ UNCHANGED << args, instructors_files, instructors_file, df, all_uk_institutions_coords_df, center,
                    instructors_affiliations, maps, heat_map, html_files, drive_calls,
                    stderr, exit_status >>

\* lines 102-108
ReadGeodata ==
    /\ pc = "read_geodata"
    /\ files_read' = files_read \cup {"geodata"}
    /\ \E raised \in BOOLEAN, sheet \in GeodataSheets :
          IF raised
          THEN /\ stdout' = Append(stdout, Line("An error occurred while reading the geodata file"))
               /\ raised_at' = "read_geodata"
               /\ pc' = "done"
               /\ UNCHANGED uk_academic_institutions_df
          ELSE /\ uk_academic_institutions_df' = sheet
               /\ pc' = "load_data"
               /\ UNCHANGED << stdout, raised_at >>
    /\ UNCHANGED << args, instructors_files, instructors_file, df, all_uk_institutions_coords_df, center,
                    instructors_affiliations, maps, heat_map, html_files, drive_calls,
                    stderr, exit_status >>

\* lines 134-136: what the except clause of the inner try prints
Except == << Line("An error occurred while creating the map"), Line("traceback") >>

\* line 110-111
LoadData ==
    /\ pc = "load_data"
    /\ files_read' = files_read \cup {"csv"}
    /\ \E raised \in BOOLEAN, csv \in CsvFiles :
          IF raised \/ "affiliation" \notin csv.columns
          THEN /\ stdout' = stdout \o Except
               /\ raised_at' = "load_data"
               /\ pc' = "done"
               /\ UNCHANGED df
          ELSE /\ df' = csv.rows
               /\ stdout' = Append(stdout, Line("Generating a map"))
               /\ pc' = "drop_null"
               /\ UNCHANGED raised_at
    /\ UNCHANGED << args, instructors_files, instructors_file, uk_academic_institutions_df,
                    all_uk_institutions_coords_df, center, instructors_affiliations, maps,
                    heat_map, html_files, drive_calls, stderr, exit_status >>

\* As Raise, the exception passing the except clause: main() goes on with the
\* next statement.
RaiseAndGoOn ==
    /\ stdout' = stdout \o Except
    /\ raised_at' = pc
    /\ pc' = Statements[Index(pc) + 1]

\* An exception raised by the statement at pc inside the inner try: the except
\* clause prints and main() returns.
Raise ==
    /\ stdout' = stdout \o Except
    /\ raised_at' = pc
    /\ pc' = "done"

\* line 112
DropNull ==
    /\ pc = "drop_null"
    /\ \E raised \in BOOLEAN :
          IF raised
          THEN Raise /\ UNCHANGED df
          ELSE /\ df' = drop_null_values_from_columns(df)
               /\ pc' = "fix_names"
               /\ UNCHANGED << stdout, raised_at >>
    /\ UNCHANGED << args, instructors_files, instructors_file, files_read, uk_academic_institutions_df,
                    all_uk_institutions_coords_df, center, instructors_affiliations, maps,
                    heat_map, html_files, drive_calls, stderr, exit_status >>

\* line 113
FixNames ==
    /\ pc = "fix_names"
    /\ \E raised \in BOOLEAN :
          IF raised
          THEN Raise /\ UNCHANGED df
          ELSE /\ df' = fix_UK_academic_institutions_names(df)
               /\ pc' = "coords"
               /\ UNCHANGED << stdout, raised_at >>
    /\ UNCHANGED << args, instructors_files, instructors_file, files_read, uk_academic_institutions_df,
                    all_uk_institutions_coords_df, center, instructors_affiliations, maps,
                    heat_map, html_files, drive_calls, stderr, exit_status >>

\* lines 115-118
BuildCoords ==
    /\ pc = "coords"
    /\ \E raised \in BOOLEAN :
          IF raised
          THEN Raise /\ UNCHANGED << all_uk_institutions_coords_df, center >>
          ELSE LET all == uk_academic_institutions_df \o get_UK_non_academic_institutions_coords
               IN  /\ all_uk_institutions_coords_df' = all
                   /\ center' = get_center(all)
                   /\ pc' = "aggregate"
                   /\ UNCHANGED << stdout, raised_at >>
    /\ UNCHANGED << args, instructors_files, instructors_file, files_read, uk_academic_institutions_df, df,
                    instructors_affiliations, maps, heat_map, html_files, drive_calls,
                    stderr, exit_status >>

\* line 120
Aggregate ==
    /\ pc = "aggregate"
    /\ \E raised \in BOOLEAN :
          IF raised
          THEN Raise /\ UNCHANGED instructors_affiliations
          ELSE /\ instructors_affiliations' = instructors_per_affiliation(df)
               /\ pc' = "generate_map"
               /\ UNCHANGED << stdout, raised_at >>
    /\ UNCHANGED << args, instructors_files, instructors_file, files_read, uk_academic_institutions_df, df,
                    all_uk_institutions_coords_df, center, maps, heat_map, html_files,
                    drive_calls, stderr, exit_status >>

\* line 122
GenerateMap ==
    /\ pc = "generate_map"
    /\ \E raised \in BOOLEAN :
          IF raised
          THEN Raise /\ UNCHANGED maps
          ELSE LET made == generate_map(instructors_affiliations, all_uk_institutions_coords_df, center)
               IN  /\ maps' = made.maps
                   /\ stdout' = stdout \o made.printed
                   /\ pc' = "generate_heat_map"
                   /\ UNCHANGED raised_at
    /\ UNCHANGED << args, instructors_files, instructors_file, files_read, uk_academic_institutions_df, df,
                    all_uk_institutions_coords_df, center, instructors_affiliations,
                    heat_map, html_files, drive_calls, stderr, exit_status >>

\* line 123
GenerateHeatMap ==
    /\ pc = "generate_heat_map"
    /\ \E raised \in BOOLEAN :
          IF raised
          THEN Raise /\ UNCHANGED heat_map
          ELSE LET made == generate_heat_map(instructors_affiliations, all_uk_institutions_coords_df)
               IN  /\ heat_map' = made.fig
                   /\ stdout' = stdout \o made.printed
                   /\ pc' = "save_map"
                   /\ UNCHANGED raised_at
    /\ UNCHANGED << args, instructors_files, instructors_file, files_read, uk_academic_institutions_df, df,
                    all_uk_institutions_coords_df, center, instructors_affiliations,
                    maps, html_files, drive_calls, stderr, exit_status >>

\* A file written to the end, and one a failed write left behind.
Written(path) == [path |-> path, complete |-> TRUE]
Partial(path) == [path |-> path, complete |-> FALSE]

SaveOutcomes == { "saved", "raised", "raised while writing" }

\* lines 126-128
SaveMap ==
    /\ pc = "save_map"
    /\ \E outcome \in SaveOutcomes :
          CASE outcome = "saved" ->
                 /\ html_files' = html_files \cup { Written(html_map_file(instructors_file)) }
                 /\ stdout' = Append(stdout, Line("Map saved to HTML file"))
                 /\ pc' = "save_heatmap"
                 /\ UNCHANGED raised_at
            [] outcome = "raised" ->
                 Raise /\ UNCHANGED html_files
            [] outcome = "raised while writing" ->
                 Raise /\ html_files' = html_files \cup { Partial(html_map_file(instructors_file)) }
    /\ UNCHANGED << args, instructors_files, instructors_file, files_read, tables, drive_calls, stderr, exit_status >>

\* As SaveHeatMap, the upload in a finally clause: it is reached after a
\* failure too.
SaveHeatMap_finally ==
    /\ pc = "save_heatmap"
    /\ \E outcome \in SaveOutcomes :
          CASE outcome = "saved" ->
                 /\ html_files' = html_files \cup { Written(html_heatmap_file(instructors_file)) }
                 /\ stdout' = Append(stdout, Line("HeatMap saved to HTML file"))
                 /\ pc' = "upload"
                 /\ UNCHANGED raised_at
            [] outcome = "raised" ->
                 /\ stdout' = stdout \o Except
                 /\ raised_at' = pc
                 /\ pc' = "upload"
                 /\ UNCHANGED html_files
            [] outcome = "raised while writing" ->
                 /\ stdout' = stdout \o Except
                 /\ raised_at' = pc
                 /\ pc' = "upload"
                 /\ html_files' = html_files \cup { Partial(html_heatmap_file(instructors_file)) }
    /\ UNCHANGED << args, instructors_files, instructors_file, files_read, tables, drive_calls, stderr, exit_status >>

\* lines 130-132
SaveHeatMap ==
    /\ pc = "save_heatmap"
    /\ \E outcome \in SaveOutcomes :
          CASE outcome = "saved" ->
                 /\ html_files' = html_files \cup { Written(html_heatmap_file(instructors_file)) }
                 /\ stdout' = Append(stdout, Line("HeatMap saved to HTML file"))
                 /\ pc' = "upload"
                 /\ UNCHANGED raised_at
            [] outcome = "raised" ->
                 Raise /\ UNCHANGED html_files
            [] outcome = "raised while writing" ->
                 Raise /\ html_files' = html_files \cup { Partial(html_heatmap_file(instructors_file)) }
    /\ UNCHANGED << args, instructors_files, instructors_file, files_read, tables, drive_calls, stderr, exit_status >>

\* line 138, no destination given: main() returns
NoUpload ==
    /\ pc = "upload"
    /\ args.google_drive_dir_id = ""
    /\ pc' = "done"
    /\ UNCHANGED << args, instructors_files, instructors_file, files_read, tables, html_files, drive_calls,
                    stdout, stderr, exit_status, raised_at >>

UploadOutcomes == { "uploaded", "authentication raised", "upload raised" }

AuthenticationCall == [call |-> "google_drive_authentication"]
UploadCall(file, dir) == [call |-> "google_drive_upload", file |-> file, parents |-> dir]

UploadExcept == << Line("An error occurred while uploading the map"), Line("traceback") >>

\* As Upload, a failed upload tried a second time.
Upload_retry ==
    /\ pc = "upload"
    /\ args.google_drive_dir_id # ""
    /\ \E outcome \in UploadOutcomes :
          LET uploading == Append(stdout, Line("Uploading map to Google Drive"))
              upload == UploadCall(html_map_file(instructors_file), args.google_drive_dir_id)
          IN  CASE outcome = "uploaded" ->
                     /\ drive_calls' = drive_calls \o << AuthenticationCall, upload >>
                     /\ stdout' = Append(uploading, Line("Map uploaded to Google Drive."))
                     /\ UNCHANGED raised_at
                [] outcome = "authentication raised" ->
                     /\ drive_calls' = Append(drive_calls, AuthenticationCall)
                     /\ stdout' = uploading \o UploadExcept
                     /\ raised_at' = "authentication"
                [] outcome = "upload raised" ->
                     /\ drive_calls' = drive_calls \o << AuthenticationCall, upload, upload >>
                     /\ stdout' = uploading \o UploadExcept
                     /\ raised_at' = "upload"
    /\ pc' = "done"
    /\ UNCHANGED << args, instructors_files, instructors_file, files_read, tables, html_files, stderr, exit_status >>

\* lines 138-149
Upload ==
    /\ pc = "upload"
    /\ args.google_drive_dir_id # ""
    /\ \E outcome \in UploadOutcomes :
          LET uploading == Append(stdout, Line("Uploading map to Google Drive"))
              upload == UploadCall(html_map_file(instructors_file), args.google_drive_dir_id)
          IN  CASE outcome = "uploaded" ->
                     /\ drive_calls' = drive_calls \o << AuthenticationCall, upload >>
                     /\ stdout' = Append(uploading, Line("Map uploaded to Google Drive."))
                     /\ UNCHANGED raised_at
                [] outcome = "authentication raised" ->
                     /\ drive_calls' = Append(drive_calls, AuthenticationCall)
                     /\ stdout' = uploading \o UploadExcept
                     /\ raised_at' = "authentication"
                [] outcome = "upload raised" ->
                     /\ drive_calls' = drive_calls \o << AuthenticationCall, upload >>
                     /\ stdout' = uploading \o UploadExcept
                     /\ raised_at' = "upload"
    /\ pc' = "done"
    /\ UNCHANGED << args, instructors_files, instructors_file, files_read, tables, html_files, stderr, exit_status >>

Next ==
    \/ ParseArgs
    \/ UseGivenFile
    \/ LocateLatestFile
    \/ ReadGeodata
    \/ LoadData
    \/ DropNull
    \/ FixNames
    \/ BuildCoords
    \/ Aggregate
    \/ GenerateMap
    \/ GenerateHeatMap
    \/ SaveMap
    \/ SaveHeatMap
    \/ NoUpload
    \/ Upload

Spec == Init /\ [][Next]_vars

\* ------------------------------------------------------------- properties
\* The statement the run has got to: the one to run next, or the one it
\* stopped in.
Position ==
    IF pc # "done" THEN Index(pc)
    ELSE IF raised_at \in { "authentication", "upload" } THEN Index("upload")
    ELSE IF raised_at # "" THEN Index(raised_at)
    ELSE IF exit_status # 0 THEN Index("locate")
    ELSE Index("done")

\* The statement st ran to its end without raising.
Completed(st) == Position > Index(st)

Printed(line) == \E i \in DOMAIN stdout : stdout[i] = line

TimesPrinted(line) == Cardinality({ i \in DOMAIN stdout : stdout[i] = line })

\* The rows of the reference table whose VIEW_NAME is a
RefRows(a) ==
    { k \in DOMAIN all_uk_institutions_coords_df : all_uk_institutions_coords_df[k].VIEW_NAME = a }

FirstRefRow(a) ==
    all_uk_institutions_coords_df[CHOOSE k \in RefRows(a) : \A j \in RefRows(a) : k <= j]

\* The (latitude, longitude) the reference table gives for a
RefPoint(a) == << FirstRefRow(a).LATITUDE, FirstRefRow(a).LONGITUDE >>

MatchedRows == { i \in DOMAIN instructors_affiliations : RefRows(instructors_affiliations[i].affiliation) # {} }

UnmatchedRows == DOMAIN instructors_affiliations \ MatchedRows

HeatLocations == heat_map.layers[1].locations

MarkersOf(a) == { c \in DOMAIN maps.children : \E n \in 1..(MaxRows + 1) : maps.children[c].popup = a \o ": " \o ToString(n) }

RECURSIVE SumCounts(_)
SumCounts(t) == IF t = << >> THEN 0 ELSE Head(t).count + SumCounts(Tail(t))

\* C1: once the cleaned roster (no row without an affiliation) has been
\* aggregated, the table has exactly one row per distinct affiliation of the
\* roster, no affiliation twice, every count at least 1, the counts sum to the
\* number of rows of the roster, and it is empty only if the roster is.
C1_OneRowPerAffiliation ==
    (Completed("aggregate") /\ \A j \in DOMAIN df : df[j] # NaN) =>
        LET t == instructors_affiliations
        IN  /\ { t[i].affiliation : i \in DOMAIN t } = { df[j] : j \in DOMAIN df }
            /\ \A i, k \in DOMAIN t : t[i].affiliation = t[k].affiliation => i = k
            /\ \A i \in DOMAIN t : t[i].count >= 1
            /\ SumCounts(t) = Len(df)
            /\ (df # << >> => t # << >>)

C1_Witness ==
    /\ Completed("aggregate")
    /\ Len(instructors_affiliations) = 2
    /\ \E i \in DOMAIN instructors_affiliations : instructors_affiliations[i].count = 2

\* C2: once both maps are generated, every row of the aggregated table whose
\* affiliation is a VIEW_NAME of the reference table has the coordinate of
\* the (first) matching reference row on the map and in the heat map and no
\* diagnostic; every other row has no marker and exactly one diagnostic
\* naming it in the whole output.
C2_MatchOrOneDiagnostic ==
    Completed("generate_heat_map") =>
        \A i \in DOMAIN instructors_affiliations :
            LET a == instructors_affiliations[i].affiliation
            IN  IF i \in MatchedRows
                THEN /\ \E c \in MarkersOf(a) : maps.children[c].location = RefPoint(a)
                     /\ \E h \in DOMAIN HeatLocations : HeatLocations[h] = RefPoint(a)
                     /\ TimesPrinted(Skipping(a)) = 0
                ELSE /\ MarkersOf(a) = {}
                     /\ TimesPrinted(Skipping(a)) = 1

\* An unmatched row is followed by a matched one: the loop went on.
C2_Witness ==
    /\ Completed("generate_heat_map")
    /\ \E i \in UnmatchedRows, k \in MatchedRows : i < k

\* C3: the marker map holds as many markers as there are matched rows; each
\* matched row has exactly one marker, at its (latitude, longitude) and
\* labelled "<affiliation>: <count>"; an unmatched row has none.
C3_OneMarkerPerMatchedRow ==
    Completed("generate_map") =>
        /\ Len(maps.children) = Cardinality(MatchedRows)
        /\ \A i \in MatchedRows :
              LET row == instructors_affiliations[i]
                  labelled == { c \in DOMAIN maps.children :
                                  maps.children[c].popup = row.affiliation \o ": " \o ToString(row.count) }
              IN  /\ Cardinality(labelled) = 1
                  /\ Cardinality(MarkersOf(row.affiliation)) = 1
                  /\ \A c \in labelled : maps.children[c].location = RefPoint(row.affiliation)
        /\ \A i \in UnmatchedRows : MarkersOf(instructors_affiliations[i].affiliation) = {}

C3_Witness ==
    /\ Completed("generate_map")
    /\ MatchedRows # {}
    /\ UnmatchedRows # {}
    /\ \E c \in DOMAIN maps.children :
          /\ maps.children[c].popup = "University of X: 2"
          /\ maps.children[c].location = << 515, -1 >>

\* C4: the locations of the heat-map layer are as many as the matched rows,
\* each matched row giving exactly one (latitude, longitude) point whatever
\* its count, and an unmatched row none.
C4_OnePointPerMatchedRow ==
    Completed("generate_heat_map") =>
        /\ Len(HeatLocations) = Cardinality(MatchedRows)
        /\ \A h \in DOMAIN HeatLocations :
              Cardinality({ g \in DOMAIN HeatLocations : HeatLocations[g] = HeatLocations[h] })
                = Cardinality({ i \in MatchedRows :
                                  RefPoint(instructors_affiliations[i].affiliation) = HeatLocations[h] })
        /\ \A i \in MatchedRows :
              \E h \in DOMAIN HeatLocations : HeatLocations[h] = RefPoint(instructors_affiliations[i].affiliation)

C4_Witness ==
    /\ Completed("generate_heat_map")
    /\ UnmatchedRows # {}
    /\ \E i \in MatchedRows : instructors_affiliations[i].count >= 2

MapFileWritten == Written(html_map_file(instructors_file)) \in html_files

HeatMapFileWritten == Written(html_heatmap_file(instructors_file)) \in html_files

\* The heat-map file is on disk, written to the end or not.
HeatMapFileTouched == \E f \in html_files : f.path = html_heatmap_file(instructors_file)

EndsWith(out, lines) ==
    /\ Len(out) >= Len(lines)
    /\ SubSeq(out, Len(out) - Len(lines) + 1, Len(out)) = lines

UploadCalls == { i \in DOMAIN drive_calls : drive_calls[i].call = "google_drive_upload" }

AuthenticationCalls == { i \in DOMAIN drive_calls : drive_calls[i].call = "google_drive_authentication" }

\* C5: when reading the reference geodata file fails, the failure is
\* reported and the run ends with the roster never loaded, no HTML file
\* written and no upload attempted.
C5_GeodataFailureAborts ==
    (pc = "done" /\ raised_at = "read_geodata") =>
        /\ EndsWith(stdout, << Line("An error occurred while reading the geodata file") >>)
        /\ "csv" \notin files_read
        /\ html_files = {}
        /\ drive_calls = << >>

C5_Witness ==
    /\ pc = "done"
    /\ raised_at = "read_geodata"
    /\ "geodata" \in files_read
    /\ args.google_drive_dir_id # ""

\* C6: when no input path is given and the discovery pattern matches no
\* file, the 'No CSV file ... found' message is printed and the process exits
\* with a non-zero status, without reading the geodata or writing output.
C6_NoInputReported ==
    (pc = "done" /\ args.instructors_file = "" /\ instructors_files = << >>) =>
        /\ Printed(Line("No CSV file with Carpentry instructors found"))
        /\ exit_status # 0
        /\ "geodata" \notin files_read
        /\ html_files = {}

FailedStage == { "load_data", "drop_null", "fix_names", "coords", "aggregate",
                 "generate_map", "generate_heat_map" }

\* C8: a failure raised while loading the roster, dropping nulls, normalizing
\* names, aggregating or rendering either map is reported with its traceback
\* and ends the run with neither HTML file written and no upload attempted.
C8_StageFailureCaught ==
    (raised_at \in FailedStage) =>
        /\ pc = "done"
        /\ exit_status = 0
        /\ stderr = << >>
        /\ EndsWith(stdout, Except)
        /\ html_files = {}
        /\ drive_calls = << >>

C8_Witness ==
    /\ raised_at = "generate_heat_map"
    /\ Len(maps.children) >= 1
    /\ args.google_drive_dir_id # ""

\* C9: Google Drive is called for an upload at most once per run (and
\* authenticated at most once), only when a destination identifier was
\* given; when authentication or upload fails the failure is reported, both
\* HTML files stay in place and the run ends normally.
C9_UploadOnceBestEffort ==
    /\ Cardinality(UploadCalls) <= 1
    /\ Cardinality(AuthenticationCalls) <= 1
    /\ (drive_calls # << >> => args.google_drive_dir_id # "")
    /\ (raised_at \in { "authentication", "upload" } =>
            /\ pc = "done"
            /\ EndsWith(stdout, UploadExcept)
            /\ MapFileWritten
            /\ HeatMapFileWritten
            /\ stderr = << >>
            /\ exit_status = 0)

C9_Witness ==
    /\ pc = "done"
    /\ raised_at = "upload"
    /\ Cardinality(UploadCalls) = 1

\* C10: the heat-map file is on disk only if the marker-map file was written
\* before it; Google Drive is called only after both HTML files were written
\* without error; a failure while saving the heat map leaves the marker-map
\* file on disk and skips the upload; and the steps build marker map, build
\* heat map, save marker map, save heat map, upload are taken in that order.
C10_SaveOrder ==
    /\ [](/\ (HeatMapFileTouched => MapFileWritten)
          /\ (drive_calls # << >> => (MapFileWritten /\ HeatMapFileWritten /\ raised_at \notin FailedStage \cup {"save_map", "save_heatmap"}))
          /\ (raised_at = "save_heatmap" => (pc = "done" /\ MapFileWritten /\ drive_calls = << >>)))
    /\ [][/\ (HeatMapFileTouched' /\ ~HeatMapFileTouched => MapFileWritten)
          /\ (drive_calls' # drive_calls => (MapFileWritten /\ HeatMapFileWritten))
          /\ (pc' # pc /\ pc' # "done" /\ Index(pc) >= Index("generate_map") => Index(pc') = Index(pc) + 1)]_vars

C10_Witness ==
    /\ pc = "done"
    /\ raised_at = "save_heatmap"
    /\ MapFileWritten
    /\ HeatMapFileTouched
    /\ args.google_drive_dir_id # ""

====
